---- MODULE Spec2Model ----
(***************************************************************************)
(* Model of backend-go/fix_all_errcheck.py.                                *)
(*                                                                         *)
(* A source text is a sequence of tokens.  Every closing parenthesis is a  *)
(* token of its own, and so is every whitespace character that a pattern   *)
(* or a look-ahead can meet (a blank inside the words of a comment or of   *)
(* an argument list stays inside its token: no pattern starts behind it);  *)
(* "//" is a token; every other token holds no ")".  So the classes \s and *)
(* [^)] and the look-aheads of the regular expressions act on tokens as    *)
(* they act on characters.                                                 *)
(***************************************************************************)
EXTENDS Integers, Sequences, FiniteSets, TLC

(***************************************************************************)
(* Regular-expression matching and re.sub                                  *)
(***************************************************************************)

\* \s
IsWS(t) == t \in {" ", "\t", "\n"}

\* index of the first token at or after i that is not whitespace
RECURSIVE SkipWS(_, _)
SkipWS(text, i) ==
    IF i <= Len(text) /\ IsWS(text[i]) THEN SkipWS(text, i + 1) ELSE i

\* index of the first ")" at or after i, Len(text) + 1 when there is none
RECURSIVE FirstClose(_, _)
FirstClose(text, i) ==
    IF i > Len(text) \/ text[i] = ")" THEN i ELSE FirstClose(text, i + 1)

\* the literal lit stands in text at position i
LitAt(lit, text, i) ==
    /\ i + Len(lit) - 1 <= Len(text)
    /\ \A j \in 1..Len(lit) : text[i + j - 1] = lit[j]

\* the look-ahead of a rule, evaluated behind the closing token at index q
LookAhead(la, text, q) ==
    LET n == SkipWS(text, q + 1) IN
    CASE la = "none"      -> TRUE
      [] la = "nocomment" -> ~(n <= Len(text) /\ text[n] = "//")
      [] la = "scan"      -> \/ n > Len(text)
                             \/ text[n] = "//"
                             \/ \E k \in (q + 1)..(n - 1) : text[k] = "\n"

\* the alternative of the rule whose literal stands at i (0: none)
AltAt(rule, text, i) ==
    IF \E a \in 1..Len(rule.lits) : LitAt(rule.lits[a], text, i)
    THEN CHOOSE a \in 1..Len(rule.lits) : LitAt(rule.lits[a], text, i)
    ELSE 0

\* index of the last token of the match whose callee starts at i (0: no match)
MatchEnd(rule, text, i) ==
    LET a == AltAt(rule, text, i) IN
    IF i <= 1 \/ a = 0 THEN 0
    ELSE IF ~IsWS(text[i - 1]) THEN 0
    ELSE LET p == i + Len(rule.lits[a]) - 1
             q == IF rule.args THEN FirstClose(text, p + 1) ELSE p
         IN  IF rule.args /\ (q = p + 1 \/ q > Len(text)) THEN 0
             ELSE IF LookAhead(rule.la, text, q) THEN q ELSE 0

\* the replacement template, expanded for the match at i..q (group 1, the
\* whitespace before the callee, is already emitted)
Expand(rule, text, i, q) ==
    LET a == AltAt(rule, text, i)
        p == i + Len(rule.lits[a]) - 1
    IN  rule.pre \o rule.outs[a]
          \o (IF rule.args THEN SubSeq(text, p + 1, q) ELSE << >>)
          \o rule.post

\* SubFrom with the scan resumed one token too far behind a match
RECURSIVE SubFromSkipsNext(_, _, _)
SubFromSkipsNext(rule, text, i) ==
    IF i > Len(text) THEN << >>
    ELSE LET q == MatchEnd(rule, text, i) IN
         IF q > 0
         THEN Expand(rule, text, i, q) \o SubFromSkipsNext(rule, text, q + 2)
         ELSE <<text[i]>> \o SubFromSkipsNext(rule, text, i + 1)

\* the scan of re.sub from position i on: a match is replaced by the
\* expanded template, any other token is copied
RECURSIVE SubFrom(_, _, _)
SubFrom(rule, text, i) ==
    IF i > Len(text) THEN << >>
    ELSE LET q == MatchEnd(rule, text, i) IN
         IF q > 0 THEN Expand(rule, text, i, q) \o SubFrom(rule, text, q + 1)
         ELSE <<text[i]>> \o SubFrom(rule, text, i + 1)

\* some token of text starts a literal of the rule
HasHead(rule, text) ==
    \E i \in DOMAIN text : \E a \in DOMAIN rule.lits : text[i] = rule.lits[a][1]

\* re.sub(pattern, replacement, content); a text that holds the start of no
\* literal of the pattern has no match and comes back as it is
Sub(rule, text) == IF HasHead(rule, text) THEN SubFrom(rule, text, 1) ELSE text

(***************************************************************************)
(* The rule catalog                                                        *)
(***************************************************************************)

\* A pattern argument such as r'rows\.Close\(\)': lit is the text the
\* regular expression matches, esc is the pattern string itself, which the
\* replacement template of fix_defer_close and fix_ignored_close embeds;
\* re.sub leaves the escapes \. \( \) of a template as they are.
Pat(lit, esc) == [lit |-> lit, esc |-> esc]

P_rows       == Pat(<<"rows.Close(", ")">>, <<"rows\\.Close\\(\\", ")">>)
P_rBody      == Pat(<<"r.Body.Close(", ")">>, <<"r\\.Body\\.Close\\(\\", ")">>)
P_cursor     == Pat(<<"cursor.Close(ctx", ")">>, <<"cursor\\.Close\\(ctx\\", ")">>)
P_respBody   == Pat(<<"resp.Body.Close(", ")">>, <<"resp\\.Body\\.Close\\(\\", ")">>)
P_db         == Pat(<<"db.Close(", ")">>, <<"db\\.Close\\(\\", ")">>)
P_conn       == Pat(<<"conn.Close(", ")">>, <<"conn\\.Close\\(\\", ")">>)
P_listener   == Pat(<<"listener.Close(", ")">>, <<"listener\\.Close\\(\\", ")">>)
P_colRows    == Pat(<<"colRows.Close(", ")">>, <<"colRows\\.Close\\(\\", ")">>)
P_sshClient  == Pat(<<"sshClient.Close(", ")">>, <<"sshClient\\.Close\\(\\", ")">>)
P_tListener  == Pat(<<"tunnel.listener.Close(", ")">>,
                    <<"tunnel\\.listener\\.Close\\(\\", ")">>)
P_tSshClient == Pat(<<"tunnel.sshClient.Close(", ")">>,
                    <<"tunnel\\.sshClient\\.Close\\(\\", ")">>)
P_client     == Pat(<<"client.Disconnect(ctx", ")">>,
                    <<"client\\.Disconnect\\(ctx\\", ")">>)
P_mClient    == Pat(<<"m.client.Disconnect(context.Background(", ")", ")">>,
                    <<"m\\.client\\.Disconnect\\(context\\.Background\\(\\", ")",
                      "\\", ")">>)
P_cPool      == Pat(<<"c.pool.Close(", ")">>, <<"c\\.pool\\.Close\\(\\", ")">>)
P_mPool      == Pat(<<"m.pool.Close(", ")">>, <<"m\\.pool\\.Close\\(\\", ")">>)
P_pPool      == Pat(<<"p.pool.Close(", ")">>, <<"p\\.pool\\.Close\\(\\", ")">>)
P_sPool      == Pat(<<"s.pool.Close(", ")">>, <<"s\\.pool\\.Close\\(\\", ")">>)
P_pDb        == Pat(<<"p.db.Close(", ")">>, <<"p\\.db\\.Close\\(\\", ")">>)
P_indexCursor == Pat(<<"indexCursor.Close(ctx", ")">>,
                     <<"indexCursor\\.Close\\(ctx\\", ")">>)
P_manager    == Pat(<<"manager.Close(", ")">>, <<"manager\\.Close\\(\\", ")">>)
P_storage    == Pat(<<"storage.Close(", ")">>, <<"storage\\.Close\\(\\", ")">>)
P_es         == Pat(<<"es.Disconnect(", ")">>, <<"es\\.Disconnect\\(\\", ")">>)
P_os         == Pat(<<"os.Disconnect(", ")">>, <<"os\\.Disconnect\\(\\", ")">>)
P_suiteTestDB == Pat(<<"suite.testDB.Close(", ")">>,
                     <<"suite\\.testDB\\.Close\\(\\", ")">>)
P_testDB     == Pat(<<"testDB.Close(", ")">>, <<"testDB\\.Close\\(\\", ")">>)

\* "_ = " and "_, _ = "
Discard  == <<"_", " ", "=", " ">>
Discard2 == <<"_,", " ", "_", " ", "=", " ">>
\* " // <words>"
Comment(words) == <<" ", "//", " ", words>>

\* (\s+)defer {pattern}  ->  \1defer func() { _ = {pattern} }() // Best-effort close
DeferCloseRule(pattern) ==
    [lits |-> << <<"defer", " ">> \o pattern.lit >>,
     outs |-> << <<"defer", " ", "func(", ")", " ", "{", " ">> \o Discard
                   \o pattern.esc \o <<" ", "}(", ")">> >>,
     args |-> FALSE, la |-> "none",
     pre  |-> << >>, post |-> Comment("Best-effort close")]

fix_defer_close(content, pattern) == Sub(DeferCloseRule(pattern), content)

\* (\s+)defer tx\.Rollback\(\)  ->  \1defer func() { _ = tx.Rollback() }() // ...
DeferRollbackRule ==
    [lits |-> << <<"defer", " ", "tx.Rollback(", ")">> >>,
     outs |-> << <<"defer", " ", "func(", ")", " ", "{", " ">> \o Discard
                   \o <<"tx.Rollback(", ")", " ", "}(", ")">> >>,
     args |-> FALSE, la |-> "none",
     pre  |-> << >>, post |-> Comment("Best-effort rollback")]

fix_defer_rollback(content) == Sub(DeferRollbackRule, content)

\* (\s+){pattern}  ->  \1_ = {pattern} // Best-effort close
IgnoredCloseRule(pattern) ==
    [lits |-> <<pattern.lit>>, outs |-> <<pattern.esc>>,
     args |-> FALSE, la |-> "none",
     pre  |-> Discard, post |-> Comment("Best-effort close")]

fix_ignored_close(content, pattern) == Sub(IgnoredCloseRule(pattern), content)

\* a rule (\s+)callee\(  ->  \1<pre>callee(
OpenCallRule(callee, pre) ==
    [lits |-> << <<callee>> >>, outs |-> << <<callee>> >>,
     args |-> FALSE, la |-> "none", pre |-> pre, post |-> << >>]

\* (\s+)w\.Write\(([^)]+)\)(?!\s*//)
WriteRule ==
    [lits |-> << <<"w.Write(">> >>, outs |-> << <<"w.Write(">> >>,
     args |-> TRUE, la |-> "nocomment",
     pre  |-> Discard2, post |-> Comment("Error logged by HTTP framework")]

fix_write_calls(content) == Sub(WriteRule, content)

EventLoggerRule == OpenCallRule("s.eventLogger.LogSecurityEvent(", Discard)

fix_event_logger_calls(content) == Sub(EventLoggerRule, content)

\* (\s+)rand\.Read\(([^)]+)\)
RandReadRule ==
    [lits |-> << <<"rand.Read(">> >>, outs |-> << <<"rand.Read(">> >>,
     args |-> TRUE, la |-> "none",
     pre  |-> Discard2, post |-> Comment("crypto/rand.Read errors are rare")]

fix_rand_read(content) == Sub(RandReadRule, content)

\* (\s+)s\.store\.Update(Backup|Request)Failed\(  ->  \1_ = s.store.Update\2Failed(
UpdateFailedRule ==
    [lits |-> << <<"s.store.UpdateBackupFailed(">>,
                 <<"s.store.UpdateRequestFailed(">> >>,
     outs |-> << <<"s.store.UpdateBackupFailed(">>,
                 <<"s.store.UpdateRequestFailed(">> >>,
     args |-> FALSE, la |-> "none", pre |-> Discard, post |-> << >>]

fix_update_failed_calls(content) == Sub(UpdateFailedRule, content)

AuditLogRule == OpenCallRule("s.CreateAuditLog(", Discard)

fix_audit_log_calls(content) == Sub(AuditLogRule, content)

\* (\s+)json\.NewEncoder\(w\)\.Encode\(([^)]+)\)
JsonEncodeRule ==
    [lits |-> << <<"json.NewEncoder(w", ")", ".Encode(">> >>,
     outs |-> << <<"json.NewEncoder(w", ")", ".Encode(">> >>,
     args |-> TRUE, la |-> "none",
     pre  |-> <<"if", " ", "err", " ", ":=", " ">>,
     post |-> <<";", " ", "err", " ", "!=", " ", "nil", " ", "{", "\n", "\t", "\t",
                "//", " ",
                "Error encoding response - already logged by HTTP layer",
                "\n", "\t", "}">>]

fix_json_encode(content) == Sub(JsonEncodeRule, content)

PprofHeapRule ==
    [lits |-> << <<"pprof.WriteHeapProfile(w", ")">> >>,
     outs |-> << <<"pprof.WriteHeapProfile(w", ")">> >>,
     args |-> FALSE, la |-> "none",
     pre  |-> Discard, post |-> Comment("Best-effort profiling")]

PprofGoroutineRule ==
    [lits |-> << <<"pprof.Lookup(\"goroutine\"", ")", ".WriteTo(w, 2", ")">> >>,
     outs |-> << <<"pprof.Lookup(\"goroutine\"", ")", ".WriteTo(w, 2", ")">> >>,
     args |-> FALSE, la |-> "none",
     pre  |-> Discard, post |-> Comment("Best-effort profiling")]

fix_pprof_calls(content) == Sub(PprofGoroutineRule, Sub(PprofHeapRule, content))

SscanfRule == OpenCallRule("fmt.Sscanf(", Discard2)

fix_sscanf_calls(content) == Sub(SscanfRule, content)

IoCopyRule == OpenCallRule("io.Copy(", Discard2)

fix_io_copy(content) == Sub(IoCopyRule, content)

\* (\s+)rows\.Scan\(([^)]+)\)(?=\s*(?://|$|\n))
RowsScanRule ==
    [lits |-> << <<"rows.Scan(">> >>, outs |-> << <<"rows.Scan(">> >>,
     args |-> TRUE, la |-> "scan",
     pre  |-> Discard, post |-> Comment("Best-effort scan in verification")]

TestHelperRules ==
    << OpenCallRule("testDB.InsertTestUser(", Discard),
       OpenCallRule("s.InvalidateSchemaCache(", Discard),
       OpenCallRule("syncStore.ListAccessibleConnections(", Discard),
       OpenCallRule("connStore.Create(", Discard),
       RowsScanRule >>

MockServiceRules ==
    << OpenCallRule("mockSvc.SendVerificationEmail(", Discard),
       OpenCallRule("mockSvc.SendPasswordResetEmail(", Discard),
       OpenCallRule("mockSvc.SendWelcomeEmail(", Discard),
       OpenCallRule("mockSvc.SendOrganizationInvitationEmail(", Discard),
       OpenCallRule("mockSvc.SendOrganizationWelcomeEmail(", Discard),
       OpenCallRule("mockSvc.SendMemberRemovedEmail(", Discard) >>

\* the tokens of a text
Tokens(text) == { text[i] : i \in DOMAIN text }

\* the rules from the k-th on, each applied to what the one before returned;
\* toks holds the tokens of content, and a rule none of whose literals
\* starts with one of them matches nothing and returns content as it is
RECURSIVE ApplyFrom(_, _, _, _)
ApplyFrom(rules, k, content, toks) ==
    IF k > Len(rules) THEN content
    ELSE IF \E a \in DOMAIN rules[k].lits : rules[k].lits[a][1] \in toks
         THEN LET next == SubFrom(rules[k], content, 1) IN
              ApplyFrom(rules, k + 1, next, Tokens(next))
         ELSE ApplyFrom(rules, k + 1, content, toks)

\* content = re.sub(...) for each rule of the sequence, in order
ApplySeq(rules, content) == ApplyFrom(rules, 1, content, Tokens(content))

fix_test_helpers(content) == ApplySeq(TestHelperRules, content)

fix_mock_service_calls(content) == ApplySeq(MockServiceRules, content)

\* the substitutions of fix_file, in the order fix_file makes them
FixFileRules ==
    << DeferCloseRule(P_rows), DeferCloseRule(P_rBody), DeferCloseRule(P_cursor),
       DeferRollbackRule,
       IgnoredCloseRule(P_respBody), IgnoredCloseRule(P_db),
       IgnoredCloseRule(P_conn), IgnoredCloseRule(P_listener),
       IgnoredCloseRule(P_colRows), IgnoredCloseRule(P_sshClient),
       IgnoredCloseRule(P_tListener), IgnoredCloseRule(P_tSshClient),
       IgnoredCloseRule(P_client), IgnoredCloseRule(P_mClient),
       IgnoredCloseRule(P_cPool), IgnoredCloseRule(P_mPool),
       IgnoredCloseRule(P_pPool), IgnoredCloseRule(P_sPool),
       IgnoredCloseRule(P_pDb), IgnoredCloseRule(P_indexCursor),
       IgnoredCloseRule(P_manager), IgnoredCloseRule(P_storage),
       IgnoredCloseRule(P_es), IgnoredCloseRule(P_os),
       IgnoredCloseRule(P_suiteTestDB), IgnoredCloseRule(P_testDB),
       WriteRule, EventLoggerRule, RandReadRule, UpdateFailedRule, AuditLogRule,
       PprofHeapRule, PprofGoroutineRule, SscanfRule, IoCopyRule >>
    \o TestHelperRules \o MockServiceRules

\* the text fix_file computes from the text it read
ApplyAll(content) == ApplySeq(FixFileRules, content)

(***************************************************************************)
(* Bounds and input sets                                                   *)
(***************************************************************************)

\* files of the tree in a run with I/O failures
NumFiles == 3
\* fragments in a file of that tree
MaxTreeFrags == 1
\* fragments in the file of the successive-runs specification
MaxRunFrags == 3
\* successive runs of the tool
MaxRuns == 2
\* fragments in a text given to a single rule
MaxRuleFrags == 4

RECURSIVE Flatten(_)
Flatten(ss) == IF ss = << >> THEN << >> ELSE Head(ss) \o Flatten(Tail(ss))

\* the texts made of at most n fragments of the set frags
TextsOver(frags, n) ==
    { Flatten(s) : s \in UNION { [1..k -> frags] : k \in 0..n } }

\* a tree file is made of statements the rules rewrite and of other code
TreeFrags == { <<"\t", "io.Copy(">>, <<"x">> }
TreeTexts == TextsOver(TreeFrags, MaxTreeFrags)

\* statements and pieces of statements of the file that successive runs
\* rewrite: plain code, calls of the catalog, and lines that are already in
\* the wrapped form
DeferRows     == <<"defer", " ", "rows.Close(", ")">>
WrappedDefer  == <<"defer", " ", "func(", ")", " ", "{", " ", "_", " ", "=", " ",
                   "rows.Close(", ")", " ", "}(", ")", " ", "//", " ",
                   "Best-effort close">>
WrappedDb     == <<"_", " ", "=", " ", "db.Close(", ")", " ", "//", " ",
                   "Best-effort close">>
JsonEncode    == <<"json.NewEncoder(w", ")", ".Encode(">>
Indented(stmt) == <<"\t">> \o stmt
RunFrags ==
    { <<"\t">>, <<"x">>, <<")">>, <<"[]byte(s", ")">>,
      Indented(DeferRows), Indented(<<"db.Close(", ")">>),
      Indented(<<"io.Copy(">>), Indented(<<"w.Write(">>),
      Indented(<<"rand.Read(">>), Indented(<<"rows.Scan(">>),
      Indented(JsonEncode), Indented(WrappedDefer), Indented(WrappedDb) }
RunTexts == TextsOver(RunFrags, MaxRunFrags)

(***************************************************************************)
(* State                                                                   *)
(***************************************************************************)

VARIABLES
    disk,         \* path -> stored text of the file
    go_files,     \* main: list(root.rglob("*.go"))
    pc,           \* main: "start", "loop", "done"; "idle" when main does not run
    idx,          \* main: position of the for loop in go_files
    fixed_count,  \* main: fixed_count
    stdout,       \* lines printed to sys.stdout, each <<words, number or path>>
    stderr,       \* lines printed to sys.stderr, each <<"Error", path>>
    outcome,      \* path -> value fix_file returned in this run ("none" before)
    content,      \* path -> fix_file's content behind the last rule in this run
                  \*         (<<"none">> while fix_file has not come that far)
    orig,         \* history: disk when the run started
    writes,       \* history: path -> write_text calls on it in this run
    raised,       \* history: path -> what raised in fix_file in this run
    run,          \* number of the current run of the tool
    rule,         \* single-rule check: index of the rule in AllRules (0: none)
    text,         \* single-rule check: the text given to the rule
    result,       \* single-rule check: the text the rule returned
    applied       \* single-rule check: the rule has been applied

vars == <<disk, go_files, pc, idx, fixed_count, stdout, stderr, outcome, content,
          orig, writes, raised, run, rule, text, result, applied>>

treeVars == <<disk, go_files, pc, idx, fixed_count, stdout, stderr, outcome,
              content, orig, writes, raised, run>>
ruleVars == <<rule, text, result, applied>>

Range(s) == { s[i] : i \in DOMAIN s }

\* the state before main() runs over the files in paths
InitMain(paths) ==
    /\ go_files = paths
    /\ pc = "start"
    /\ idx = 0
    /\ fixed_count = 0
    /\ stdout = << >>
    /\ stderr = << >>
    /\ outcome = [f \in Range(paths) |-> "none"]
    /\ content = [f \in Range(paths) |-> <<"none">>]
    /\ writes = [f \in Range(paths) |-> 0]
    /\ raised = [f \in Range(paths) |-> "none"]
    /\ run = 1

NoRule == rule = 0 /\ text = << >> /\ result = << >> /\ applied = FALSE

Init ==
    /\ disk \in [1..NumFiles -> TreeTexts]
    /\ orig = disk
    /\ InitMain([i \in 1..NumFiles |-> i])
    /\ NoRule

(***************************************************************************)
(* main and fix_file                                                       *)
(***************************************************************************)

\* main, up to the for loop
MainStart ==
    /\ pc = "start"
    /\ stdout' = stdout \o <<<<"Found", Len(go_files)>>, <<"Applying", 0>>>>
    /\ fixed_count' = 0
    /\ idx' = 1
    /\ pc' = "loop"
    /\ UNCHANGED <<disk, go_files, stderr, outcome, content, orig, writes, raised,
                   run, ruleVars>>

\* the file the loop is at
Current == go_files[idx]

InLoop == pc = "loop" /\ idx <= Len(go_files)

\* FixFileOk with the comparison "content != original" left out
FixFileOkAlwaysWrites ==
    /\ InLoop
    /\ content' = [content EXCEPT ![Current] = ApplyAll(disk[Current])]
    /\ disk' = [disk EXCEPT ![Current] = content'[Current]]
    /\ writes' = [writes EXCEPT ![Current] = @ + 1]
    /\ stdout' = Append(stdout, <<"Fixed", Current>>)
    /\ outcome' = [outcome EXCEPT ![Current] = "True"]
    /\ fixed_count' = fixed_count + 1
    /\ idx' = idx + 1
    /\ UNCHANGED <<go_files, pc, stderr, orig, raised, run, ruleVars>>

\* one iteration of the loop: fix_file reads, rewrites, and writes back if
\* the text changed
FixFileOk ==
    /\ InLoop
    /\ LET original == disk[Current] IN
       /\ content' = [content EXCEPT ![Current] = ApplyAll(original)]
       /\ IF content'[Current] # original
          THEN /\ disk' = [disk EXCEPT ![Current] = content'[Current]]
               /\ writes' = [writes EXCEPT ![Current] = @ + 1]
               /\ stdout' = Append(stdout, <<"Fixed", Current>>)
               /\ outcome' = [outcome EXCEPT ![Current] = "True"]
               /\ fixed_count' = fixed_count + 1
          ELSE /\ outcome' = [outcome EXCEPT ![Current] = "False"]
               /\ UNCHANGED <<disk, writes, stdout, fixed_count>>
    /\ idx' = idx + 1
    /\ UNCHANGED <<go_files, pc, stderr, orig, raised, run, ruleVars>>

\* FixFileReadError without the except clause: the exception leaves
\* fix_file and main, and the run ends at this file
FixFileReadErrorAborts ==
    /\ InLoop
    /\ stderr' = Append(stderr, <<"Error", Current>>)
    /\ raised' = [raised EXCEPT ![Current] = "read_text"]
    /\ outcome' = [outcome EXCEPT ![Current] = "False"]
    /\ pc' = "done"
    /\ UNCHANGED <<disk, go_files, idx, fixed_count, stdout, content, orig, writes,
                   run, ruleVars>>

\* one iteration of the loop: read_text raises
FixFileReadError ==
    /\ InLoop
    /\ stderr' = Append(stderr, <<"Error", Current>>)
    /\ outcome' = [outcome EXCEPT ![Current] = "False"]
    /\ raised' = [raised EXCEPT ![Current] = "read_text"]
    /\ idx' = idx + 1
    /\ UNCHANGED <<disk, go_files, pc, fixed_count, stdout, content, orig, writes,
                   run, ruleVars>>

\* what a file can hold after write_text(data) raised: write_text opens
\* the file for writing, which truncates it, and then writes; it fails
\* before the file is opened or after some part of the text went out
AfterFailedWrite(stored, data) ==
    {stored} \cup { SubSeq(data, 1, n) : n \in 0..(Len(data) - 1) }

\* one iteration of the loop: the text changed and write_text raises
FixFileWriteError ==
    /\ InLoop
    /\ LET original == disk[Current] IN
       /\ content' = [content EXCEPT ![Current] = ApplyAll(original)]
       /\ content'[Current] # original
       /\ \E left \in AfterFailedWrite(original, content'[Current]) :
              disk' = [disk EXCEPT ![Current] = left]
    /\ writes' = [writes EXCEPT ![Current] = @ + 1]
    /\ stderr' = Append(stderr, <<"Error", Current>>)
    /\ outcome' = [outcome EXCEPT ![Current] = "False"]
    /\ raised' = [raised EXCEPT ![Current] = "write_text"]
    /\ idx' = idx + 1
    /\ UNCHANGED <<go_files, pc, fixed_count, stdout, orig, run, ruleVars>>

\* main, behind the for loop
MainFinish ==
    /\ pc = "loop"
    /\ idx > Len(go_files)
    /\ stdout' = stdout \o <<<<"Summary", fixed_count>>, <<"Run golangci-lint", 0>>>>
    /\ pc' = "done"
    /\ UNCHANGED <<disk, go_files, idx, fixed_count, stderr, outcome, content,
                   orig, writes, raised, run, ruleVars>>

Next ==
    \/ MainStart
    \/ FixFileOk
    \/ FixFileReadError
    \/ FixFileWriteError
    \/ MainFinish

Spec == Init /\ [][Next]_vars

(***************************************************************************)
(* Successive runs of the tool over a tree of one file, without I/O        *)
(* failures                                                                *)
(***************************************************************************)

InitRuns ==
    /\ disk \in [{1} -> RunTexts]
    /\ orig = disk
    /\ InitMain(<<1>>)
    /\ NoRule

\* the operator starts the tool again on the tree the last run left
Rerun ==
    /\ pc = "done"
    /\ run < MaxRuns
    /\ run' = run + 1
    /\ pc' = "start"
    /\ idx' = 0
    /\ fixed_count' = 0
    /\ stdout' = << >>
    /\ stderr' = << >>
    /\ outcome' = [f \in DOMAIN outcome |-> "none"]
    /\ content' = [f \in DOMAIN content |-> <<"none">>]
    /\ writes' = [f \in DOMAIN writes |-> 0]
    /\ raised' = [f \in DOMAIN raised |-> "none"]
    /\ orig' = disk
    /\ UNCHANGED <<disk, go_files, ruleVars>>

NextRuns ==
    \/ MainStart
    \/ FixFileOk
    \/ MainFinish
    \/ Rerun

SpecRuns == InitRuns /\ [][NextRuns]_vars

(***************************************************************************)
(* One rule applied to one text                                            *)
(***************************************************************************)

\* every substitution the module defines: those of fix_file, and
\* fix_json_encode
AllRules == FixFileRules \o <<JsonEncodeRule>>

\* the pieces of the texts a rule is tried on: other code, the rule's own
\* literals whole and cut short and, for a rule with arguments or a
\* look-ahead, what these look at
RuleFrags(r) ==
    { <<"\t">>, <<"x">> }
      \cup { r.lits[a] : a \in DOMAIN r.lits }
      \cup { <<r.lits[a][1]>> : a \in DOMAIN r.lits }
      \cup (IF r.args
            THEN { <<")">> } \cup { r.lits[a] \o <<"x", ")">> : a \in DOMAIN r.lits }
            ELSE { })
      \cup (IF r.la # "none" THEN { <<"//">>, <<"\n">> } ELSE { })

NoMain ==
    /\ disk = << >> /\ orig = << >> /\ go_files = << >>
    /\ pc = "idle" /\ idx = 0 /\ fixed_count = 0
    /\ stdout = << >> /\ stderr = << >>
    /\ outcome = << >> /\ content = << >> /\ writes = << >> /\ raised = << >>
    /\ run = 0

InitRule ==
    /\ rule \in DOMAIN AllRules
    /\ text \in TextsOver(RuleFrags(AllRules[rule]), MaxRuleFrags)
    /\ result = << >>
    /\ applied = FALSE
    /\ NoMain

ApplyRule ==
    /\ rule # 0
    /\ ~applied
    /\ result' = Sub(AllRules[rule], text)
    /\ applied' = TRUE
    /\ UNCHANGED <<rule, text, treeVars>>

NextRule == ApplyRule

SpecRule == InitRule /\ [][NextRule]_vars

(***************************************************************************)
(* Properties                                                              *)
(***************************************************************************)

Paths == Range(go_files)

\* number of lines equal to l in a stream
Count(stream, l) == Cardinality({ i \in DOMAIN stream : stream[i] = l })

\* the sequence part stands somewhere in the sequence whole
Contains(whole, part) == \E i \in 1..Len(whole) : LitAt(part, whole, i)

\* C2 (failure isolation): when a run of main is over, every enumerated
\* file has been processed; a file on which read_text or write_text raised
\* has exactly one error record, no "Fixed" line, outcome False and is not
\* counted; a file on which nothing raised has no error record, has gone
\* through the whole pipeline and, if the pipeline changed its text, holds
\* the rewritten text, is reported as fixed and is counted.
C2_FailureIsolation ==
    pc = "done" =>
        /\ \A f \in Paths :
            /\ outcome[f] # "none"
            /\ Count(stderr, <<"Error", f>>) = (IF raised[f] # "none" THEN 1 ELSE 0)
            /\ raised[f] # "none" =>
                 /\ outcome[f] = "False"
                 /\ Count(stdout, <<"Fixed", f>>) = 0
            /\ raised[f] = "none" =>
                 /\ content[f] # <<"none">>
                 /\ content[f] # orig[f] =>
                      /\ disk[f] = content[f]
                      /\ outcome[f] = "True"
                      /\ Count(stdout, <<"Fixed", f>>) = 1
        /\ fixed_count =
              Cardinality({ f \in Paths : raised[f] = "none" /\ content[f] # orig[f] })
        /\ Len(stderr) = Cardinality({ f \in Paths : raised[f] # "none" })

\* C2 witness: the first file of the enumeration failed, and every file
\* behind it was still rewritten and reported as fixed.
C2_Witness ==
    /\ pc = "done"
    /\ Len(go_files) >= 3
    /\ raised[go_files[1]] # "none"
    /\ \A i \in 2..Len(go_files) :
          /\ outcome[go_files[i]] = "True"
          /\ disk[go_files[i]] # orig[go_files[i]]
    /\ fixed_count = Len(go_files) - 1

\* C3 (aggregate count): when a run of main is over, the number of the
\* "Fixed N files" line is the number of files whose stored text differs
\* from their stored text before the run.
C3_CountIsChangedFiles ==
    pc = "done" =>
        /\ Count(stdout, <<"Summary", fixed_count>>) = 1
        /\ fixed_count = Cardinality({ f \in Paths : disk[f] # orig[f] })

Starts(r, t) == { i \in 1..Len(t) : MatchEnd(r, t, i) > 0 }

\* the matched statements: the matches that lie inside no earlier match
Outer(r, t) ==
    { i \in Starts(r, t) : \A j \in Starts(r, t) : j < i => MatchEnd(r, t, j) < i }

InStatement(r, t, p) ==
    \E i \in Outer(r, t) : i <= p /\ p <= MatchEnd(r, t, i)

\* tokens the replacement template adds around the statement matched at i
Added(r, t, i) ==
    LET a == AltAt(r, t, i) IN
    Len(r.pre) + Len(r.outs[a]) - Len(r.lits[a]) + Len(r.post)

\* tokens added by the statements that end before position p, from i on
RECURSIVE AddedBefore(_, _, _, _)
AddedBefore(r, t, p, i) ==
    IF i >= p THEN 0
    ELSE (IF i \in Outer(r, t) /\ MatchEnd(r, t, i) < p THEN Added(r, t, i) ELSE 0)
           + AddedBefore(r, t, p, i + 1)

FirstRunDone == pc = "done" /\ run = 1

\* C1 (idempotency of the pipeline): the text a run leaves in a file is a
\* fixed point of the pipeline, applyAll(applyAll(T)) = applyAll(T); so the
\* second of two successive runs writes no file and reports 0 fixed files.
C1_Idempotent ==
    pc = "done" =>
        /\ \A f \in Paths : ApplyAll(disk[f]) = disk[f]
        /\ run = 2 =>
             /\ fixed_count = 0
             /\ disk = orig
             /\ \A f \in Paths : writes[f] = 0

\* calls whose result a rule with an argument group discards; the argument
\* is plain or holds a call of its own
ArgCalls ==
    { <<head>> \o arg \o <<")">> :
        head \in {"w.Write(", "rand.Read(", "rows.Scan("},
        arg \in { <<"x">>, <<"[]byte(s", ")">> } }

\* the rule of fix_file whose pattern starts with the token head
RuleOf(head) ==
    FixFileRules[CHOOSE k \in DOMAIN FixFileRules :
                    \E a \in DOMAIN FixFileRules[k].lits :
                        FixFileRules[k].lits[a][1] = head]

\* C4 (soundness of a rewrite): after a run, a file that held an indented
\* call holds the call verbatim and contiguous, argument text included;
\* and a file that was just that call holds it unchanged or holds the call
\* with the rule's wrapper before it and the rule's comment behind it.
C4_CallPreserved ==
    FirstRunDone =>
        \A call \in ArgCalls :
            /\ Contains(orig[1], Indented(call)) => Contains(disk[1], call)
            /\ orig[1] = Indented(call) =>
                 \/ disk[1] = orig[1]
                 \/ disk[1] = <<"\t">> \o RuleOf(call[1]).pre \o call
                                \o RuleOf(call[1]).post

\* texts whose every line is already in the wrapped form of its construct
AlreadyWrapped ==
    TextsOver({ Indented(WrappedDefer), Indented(WrappedDb) }, MaxRunFrags)
      \ { << >> }

\* C5 (no double-wrapping): a run over a file whose lines are already in
\* the wrapped form leaves the file exactly equal, does not write it and
\* does not report it as fixed.
C5_NoDoubleWrap ==
    (FirstRunDone /\ orig[1] \in AlreadyWrapped) =>
        /\ disk[1] = orig[1]
        /\ writes[1] = 0
        /\ outcome[1] = "False"
        /\ fixed_count = 0
        /\ Count(stdout, <<"Fixed", 1>>) = 0

\* C6 (deferred-close scenario): the first run over a file with the
\* indented line "defer rows.Close()" leaves the line as
\* "defer func() { _ = rows.Close() }() // Best-effort close" and reports
\* the file as fixed; a second run over the file the first run left of that
\* line changes nothing, writes nothing and reports nothing as fixed.
C6_DeferredClose ==
    /\ (FirstRunDone /\ Contains(orig[1], Indented(DeferRows))) =>
          /\ Contains(disk[1], Indented(WrappedDefer))
          /\ outcome[1] = "True"
          /\ Count(stdout, <<"Fixed", 1>>) = 1
    /\ (pc = "done" /\ run = 2 /\ orig[1] = ApplyAll(Indented(DeferRows))) =>
          /\ disk[1] = orig[1]
          /\ writes[1] = 0
          /\ fixed_count = 0

\* C9 (explicit-check form for response encoding): a run over a file that
\* holds the statement json.NewEncoder(w).Encode(x) leaves it as
\* "if err := json.NewEncoder(w).Encode(x); err != nil {".
C9_EncodeChecked ==
    (FirstRunDone /\ Contains(orig[1], Indented(JsonEncode \o <<"x", ")">>))) =>
        Contains(disk[1],
                 <<"\t", "if", " ", "err", " ", ":=", " ">> \o JsonEncode
                   \o <<"x", ")", ";", " ", "err", " ", "!=", " ", "nil", " ", "{">>)

\* the rule list with the rules at i and j exchanged
Swap(rules, i, j) == [rules EXCEPT ![i] = rules[j], ![j] = rules[i]]

\* C10 (order independence): the text a run leaves is the text the rule
\* list gives with any two of its rules exchanged (checked for every two
\* rules whose literals start somewhere in the file; the others match
\* nothing in it).
C10_OrderIndependent ==
    FirstRunDone =>
        \A i, j \in DOMAIN FixFileRules :
            (i < j /\ HasHead(FixFileRules[i], orig[1])
                   /\ HasHead(FixFileRules[j], orig[1])) =>
                ApplySeq(Swap(FixFileRules, i, j), orig[1]) = disk[1]

====
